---- MODULE Spec2Model ----
(***************************************************************************)
(* State-machine model of dace/optimization/data_layout_tuner.py:          *)
(* DataLayoutTuner.space, .setup_tuning_groups and .optimize, together     *)
(* with the on-disk '<label>.tuning' cache that optimize reads and writes. *)
(*                                                                         *)
(* Python tuples and lists are sequences (1-indexed here, 0-indexed in the *)
(* source: a dimension d of the source is element d + 1 of a sequence).    *)
(* Python dicts are sequences of <<key, value>> pairs in insertion order.  *)
(***************************************************************************)
EXTENDS Integers, Sequences, FiniteSets, TLC

\* ------------------------------------------------------------------ bounds
\* Longest program (number of cutouts optimize iterates over).
MaxKernels == 2
\* measure() returns a runtime in 1..MaxCost.
MaxCost == 2
\* Number of optimize() invocations in one behaviour (restarts included).
MaxRuns == 2

\* --------------------------------------------------------- small utilities
RECURSIVE SeqProduct(_)
SeqProduct(s) == IF s = <<>> THEN 1 ELSE Head(s) * SeqProduct(Tail(s))

RECURSIVE Flatten(_)
Flatten(ss) == IF ss = <<>> THEN <<>> ELSE Head(ss) \o Flatten(Tail(ss))

RemoveAt(s, i) == SubSeq(s, 1, i - 1) \o SubSeq(s, i + 1, Len(s))

Range(s) == {s[i] : i \in 1..Len(s)}

\* list(range(dims))
RangeList(dims) == [i \in 1..dims |-> i - 1]

\* ------------------------------------------------------------ Python dicts
DictKeys(d) == {d[i][1] : i \in 1..Len(d)}

DictHas(d, k) == \E i \in 1..Len(d) : d[i][1] = k

DictGet(d, k) == d[CHOOSE i \in 1..Len(d) : d[i][1] = k][2]

\* d[k] = v : an existing key keeps its position, a new key is appended.
DictSet(d, k, v) ==
    IF DictHas(d, k)
    THEN [i \in 1..Len(d) |-> IF d[i][1] = k THEN <<k, v>> ELSE d[i]]
    ELSE Append(d, <<k, v>>)

\* The mapping a dict denotes (dict equality in Python ignores order).
AsMap(d) == [k \in DictKeys(d) |-> DictGet(d, k)]

\* -------------------------------------------------------------- TuningGroups
Separate == "Separate"
Inputs_Outputs == "Inputs_Outputs"
Dimension == "Dimension"
Inputs_Outputs_Dimension == "Inputs_Outputs_Dimension"
TuningGroups == {Separate, Inputs_Outputs, Dimension, Inputs_Outputs_Dimension}

\* ------------------------------------------------------- array descriptors
\* Row-major (C order) strides of a shape: the default strides of dt.Array.
RowMajor(shape) ==
    [i \in 1..Len(shape) |-> SeqProduct(SubSeq(shape, i + 1, Len(shape)))]

\* A descriptor as the cutout holds it before any tuning.
Descriptor(shape, transient) ==
    [shape |-> shape, strides |-> RowMajor(shape),
     total_size |-> SeqProduct(shape), transient |-> transient]

\* desc.strides_from_layout(*dimensions): dimension i occupies position
\* dimensions[i] of the physical layout, the strides are the row-major strides
\* of the permuted shape, total_size is the product of the shape.
\* A dimensions tuple that is no permutation of range(rank) leaves the
\* descriptor's values as they are (the library rejects it).
IsPermutationOf(dimensions, n) ==
    /\ Len(dimensions) = n
    /\ Range(dimensions) = {i - 1 : i \in 1..n}

strides_from_layout(desc, dimensions) ==
    IF ~IsPermutationOf(dimensions, Len(desc.shape))
    THEN <<desc.strides, desc.total_size>>
    ELSE LET n == Len(desc.shape)
             physical == [j \in 1..n |->
                 desc.shape[CHOOSE i \in 1..n : dimensions[i] + 1 = j]]
             rm == RowMajor(physical)
         IN << [i \in 1..n |-> rm[dimensions[i] + 1]], SeqProduct(desc.shape) >>

\* ------------------------------------------------------------- itertools
\* itertools.permutations(s): every ordering of s, in lexicographic order of
\* positions.
RECURSIVE permutations(_)
permutations(s) ==
    IF s = <<>> THEN << <<>> >>
    ELSE Flatten([i \in 1..Len(s) |->
             LET rest == permutations(RemoveAt(s, i))
             IN [j \in 1..Len(rest) |-> <<s[i]>> \o rest[j]]])

\* itertools.product(*layouts): one element of each layout, the last layout
\* varying fastest.
productZipped(layouts) ==
    IF layouts = <<>> THEN << <<>> >>
    ELSE LET n == CHOOSE m \in {Len(layouts[g]) : g \in 1..Len(layouts)} :
                     \A g \in 1..Len(layouts) : m <= Len(layouts[g])
         IN [i \in 1..n |-> [g \in 1..Len(layouts) |-> layouts[g][i]]]

RECURSIVE product(_)
product(layouts) ==
    IF layouts = <<>> THEN << <<>> >>
    ELSE LET rest == product(Tail(layouts))
             first == Head(layouts)
         IN Flatten([i \in 1..Len(first) |->
                [j \in 1..Len(rest) |-> <<first[i]>> \o rest[j]]])

\* -------------------------------------------------------------------- json
\* The text json.dump writes for a dict of string keys and numbers, as its
\* sequence of tokens.
json_dump(d) ==
    << [t |-> "{"] >>
    \o Flatten([i \in 1..Len(d) |->
           << [t |-> "key", k |-> d[i][1]], [t |-> "num", n |-> d[i][2]] >>])
    \o << [t |-> "}"] >>

\* Whether json.load accepts the text (otherwise it raises JSONDecodeError).
json_wellformed(text) ==
    /\ Len(text) >= 2
    /\ Len(text) % 2 = 0
    /\ text[1].t = "{"
    /\ text[Len(text)].t = "}"
    /\ \A i \in 2..(Len(text) - 1) :
          text[i].t = (IF i % 2 = 0 THEN "key" ELSE "num")

\* The dict json.load builds from a well-formed text: members in order, a
\* repeated key keeping its last value.
RECURSIVE json_members(_, _, _)
json_members(text, i, d) ==
    IF i + 1 > Len(text) - 1 THEN d
    ELSE json_members(text, i + 2, DictSet(d, text[i].k, text[i + 1].n))

json_load(text) == json_members(text, 2, <<>>)

\* ----------------------------------------------------- setup_tuning_groups
\* Optional[List[Set[str]]]
NoGroups == [some |-> FALSE, val |-> <<>>]
SomeGroups(l) == [some |-> TRUE, val |-> l]

\* The (inoutgroup, dimgroup) key of a data node that is seen first.
GroupKeyNoDim(cutout, group_by, dnode) ==
    <<IF group_by \in {Inputs_Outputs, Inputs_Outputs_Dimension}
      THEN (IF dnode.in_degree = 0 THEN 0 ELSE 1) ELSE -1, -1>>

GroupKey(cutout, group_by, dnode) ==
    LET dimgroup ==
            IF group_by \in {Dimension, Inputs_Outputs_Dimension}
            THEN Len(DictGet(cutout.arrays, dnode.data).shape)
            ELSE -1
        inoutgroup ==
            IF group_by \in {Inputs_Outputs, Inputs_Outputs_Dimension}
            THEN (IF dnode.in_degree = 0 THEN 0 ELSE 1)
            ELSE -1
    IN <<inoutgroup, dimgroup>>

\* The loop over the cutout's data nodes, from node i on.
RECURSIVE GroupDict(_, _, _, _, _)
GroupDict(cutout, group_by, i, seen, groupdict) ==
    IF i > Len(cutout.dnodes) THEN groupdict
    ELSE LET dnode == cutout.dnodes[i]
         IN IF DictGet(cutout.arrays, dnode.data).transient
            THEN GroupDict(cutout, group_by, i + 1, seen, groupdict)
            ELSE IF dnode.data \notin seen
            THEN LET key == GroupKey(cutout, group_by, dnode)
                     old == IF DictHas(groupdict, key)
                            THEN DictGet(groupdict, key) ELSE <<>>
                 IN GroupDict(cutout, group_by, i + 1, seen \cup {dnode.data},
                              DictSet(groupdict, key, Append(old, dnode.data)))
            ELSE GroupDict(cutout, group_by, i + 1, seen, groupdict)

setup_tuning_groups(cutout, group_by) ==
    IF group_by = Separate THEN NoGroups
    ELSE LET groupdict == GroupDict(cutout, group_by, 1, {}, <<>>)
         IN SomeGroups([i \in 1..Len(groupdict) |-> Range(groupdict[i][2])])

\* ------------------------------------------------------------------- space
NonTransientAll(arrays) == arrays

NonTransient(arrays) == SelectSeq(arrays, LAMBDA kv : ~kv[2].transient)

\* groups is None: one singleton group per non-transient array.
DefaultGroups(arrays) ==
    LET nt == NonTransient(arrays) IN [i \in 1..Len(nt) |-> {nt[i][1]}]

DefaultGroupDims(arrays) ==
    LET nt == NonTransient(arrays) IN [i \in 1..Len(nt) |-> Len(nt[i][2].shape)]

\* The loop over one group's members: raises when a member's rank differs
\* from the rank of the member before it; ndims is the rank seen last.
VerifyGroupNoCheck(arrays, members, ndims) ==
    [raised |-> FALSE,
     ndims |-> IF members = {} THEN 0
               ELSE Len(DictGet(arrays, CHOOSE m \in members : TRUE).shape)]

RECURSIVE VerifyGroup(_, _, _)
VerifyGroup(arrays, members, ndims) ==
    IF members = {}
    THEN [raised |-> FALSE, ndims |-> IF ndims.some THEN ndims.val ELSE 0]
    ELSE LET member == CHOOSE m \in members : TRUE
             rank == Len(DictGet(arrays, member).shape)
         IN IF ndims.some /\ rank # ndims.val
            THEN [raised |-> TRUE, ndims |-> 0]
            ELSE VerifyGroup(arrays, members \ {member},
                             [some |-> TRUE, val |-> rank])

\* The part of space() before its loop: the groups, their ranks and the list
\* of configurations, or the ValueError of a group of mixed ranks.
SpaceSetup(arrays, groups) ==
    IF ~groups.some
    THEN LET group_dims == DefaultGroupDims(arrays)
         IN [raised |-> FALSE, groups |-> DefaultGroups(arrays),
             configurations |->
                 product([g \in 1..Len(group_dims) |->
                             permutations(RangeList(group_dims[g]))])]
    ELSE LET checked == [g \in 1..Len(groups.val) |->
                 VerifyGroup(arrays, groups.val[g], [some |-> FALSE, val |-> 0])]
         IN IF \E g \in 1..Len(checked) : checked[g].raised
            THEN [raised |-> TRUE, groups |-> groups.val, configurations |-> <<>>]
            ELSE [raised |-> FALSE, groups |-> groups.val,
                  configurations |->
                      product([g \in 1..Len(checked) |->
                                  permutations(RangeList(checked[g].ndims))])]

\* cutout_sdfg._arrays = copy.deepcopy(arrays)
ResetArraysKeep(current, arrays) == current

ResetArrays(current, arrays) == arrays

\* The strides and total_size of one group's members set from group_config.
RECURSIVE SetGroupStrides(_, _, _)
SetGroupStrides(store, members, group_config) ==
    IF members = {} THEN store
    ELSE LET member == CHOOSE m \in members : TRUE
             desc == DictGet(store, member)
             st == strides_from_layout(desc, group_config)
         IN SetGroupStrides(
                DictSet(store, member,
                        [desc EXCEPT !.strides = st[1], !.total_size = st[2]]),
                members \ {member}, group_config)

\* zip(groups, config): group g gets config[g].
ZipConfig(config, g) == config[g]

RECURSIVE SetStrides(_, _, _, _)
SetStrides(store, groups, config, g) ==
    IF g > Len(groups) \/ g > Len(config) THEN store
    ELSE SetStrides(SetGroupStrides(store, groups[g], ZipConfig(config, g)),
                    groups, config, g + 1)

\* One iteration of space()'s loop up to its yield: the descriptor store the
\* consumer sees and the yielded set of modified arrays.
ApplyConfiguration(current, arrays, groups, config) ==
    [store |-> SetStrides(ResetArrays(current, arrays), groups, config, 1),
     modified_arrays |->
         UNION {groups[g] : g \in 1..(IF Len(groups) < Len(config)
                                      THEN Len(groups) ELSE Len(config))}]

\* --------------------------------------------------------------- programs
\* A kernel is what cutouts() and cutter.cutout_state() give optimize for one
\* node: the node's label, the cutout's arrays (name -> descriptor, in dict
\* order) and the data nodes of the cutout's states in traversal order.
Kernel(label, arrays, dnodes) ==
    [label |-> label, arrays |-> arrays, dnodes |-> dnodes]

DNode(data, in_degree) == [data |-> data, in_degree |-> in_degree]

\* One rank-2 input array.
KernelA ==
    Kernel("k1", << <<"A", Descriptor(<<4, 8>>, FALSE)>> >>, << DNode("A", 0) >>)

\* Two inputs of ranks 1 and 2, a transient and a rank-1 output; its node has
\* the label of KernelA's node.
KernelB ==
    Kernel("k1",
           << <<"X", Descriptor(<<2>>, FALSE)>>,
              <<"Y", Descriptor(<<2, 3>>, FALSE)>>,
              <<"T", Descriptor(<<2, 2>>, TRUE)>>,
              <<"Z", Descriptor(<<3>>, FALSE)>> >>,
           << DNode("X", 0), DNode("Y", 0), DNode("T", 1), DNode("Z", 1) >>)

\* An array with two extents of 1, read and written, and a transient.
KernelC ==
    Kernel("k2",
           << <<"P", Descriptor(<<1, 1>>, FALSE)>>,
              <<"U", Descriptor(<<2, 2>>, TRUE)>> >>,
           << DNode("P", 0), DNode("U", 1), DNode("P", 1) >>)

\* One rank-3 array.
KernelD ==
    Kernel("k3", << <<"R", Descriptor(<<2, 1, 3>>, FALSE)>> >>,
           << DNode("R", 1) >>)

\* Two independent rank-2 arrays and a transient.
KernelE ==
    Kernel("k4",
           << <<"A", Descriptor(<<4, 8>>, FALSE)>>,
              <<"T", Descriptor(<<3, 2>>, TRUE)>>,
              <<"B", Descriptor(<<2, 3>>, FALSE)>> >>,
           << DNode("A", 0), DNode("T", 1), DNode("B", 1) >>)

\* Inputs of ranks 1 and 2 and outputs of ranks 2 and 1.
KernelF ==
    Kernel("k5",
           << <<"X", Descriptor(<<2>>, FALSE)>>,
              <<"Y", Descriptor(<<1, 1>>, FALSE)>>,
              <<"Z", Descriptor(<<2, 3>>, FALSE)>>,
              <<"W", Descriptor(<<3>>, FALSE)>> >>,
           << DNode("X", 0), DNode("Y", 0), DNode("Z", 1), DNode("W", 1) >>)

\* An array that is read and then written, and a pure input.
KernelG ==
    Kernel("k6",
           << <<"S", Descriptor(<<2, 3>>, FALSE)>>,
              <<"Q", Descriptor(<<3, 2>>, FALSE)>> >>,
           << DNode("S", 0), DNode("Q", 0), DNode("S", 1) >>)

\* The kernels the programs of several kernels are made of.
Kernels == {KernelA, KernelB, KernelC}

\* The kernels a single sweep is checked on.
SweepKernels == Kernels \cup {KernelD, KernelE, KernelF, KernelG}

Labels == {k.label : k \in SweepKernels}

\* The programs of up to MaxKernels different kernels, in any order.
Programs ==
    UNION {{p \in [1..n -> Kernels] : \A i, j \in 1..n : p[i] = p[j] => i = j} :
              n \in 1..MaxKernels}

SweepPrograms == [1..1 -> SweepKernels]

\* The arguments optimize is called with: (group_by, measurements); 30 is the
\* default repetition count and Inputs_Outputs the default policy.
CallArgs ==
    { <<Separate, 1>>, <<Inputs_Outputs, 30>>, <<Dimension, 30>>,
      <<Inputs_Outputs_Dimension, 1>> }

Costs == 1..MaxCost

\* math.inf
inf == MaxCost + 1

\* ------------------------------------------------------------------- state
VARIABLES
    program,        \* list(self.cutouts()) with each node's cutout
    fs,             \* the '<label>.tuning' files: label -> [exists, text]
    run,            \* number of the current optimize() call
    group_by,       \* argument of the current call
    measurements,   \* argument of the current call
    pc,             \* position in optimize: loop, space, body, next, write,
                    \* dump, done, raised
    error,          \* the exception that left optimize, "" when none
    ki,             \* index of the current (state, node) of the loop
    tuning_report,  \* dict label -> results
    returned,       \* what the call returned: [ok, value]
    cutout,         \* cutout.arrays, the descriptor store space() mutates
    arguments,      \* dict name -> buffer
    groups,         \* result of setup_tuning_groups
    arrays,         \* space(): the copy of the original arrays
    sgroups,        \* space(): its list of groups
    configurations, \* space(): list(configurations)
    ci,             \* space(): index of the next configuration
    modified_arrays,\* the set space() yielded last
    results,        \* dict layout -> runtime
    best_choice,    \* [some, val]
    best_runtime,
    yielded,        \* history: the configurations space() yielded this sweep
    calls,          \* history: the measure() calls of this sweep
    runtimes,       \* history: what each call of this sweep returned
    nmeasure,       \* history: measure() calls per kernel index in this run
    found,          \* history: per kernel index, whether its file existed
                    \* when the loop reached it: "", "file" or "nofile"
    completed,      \* history: kernel indices whose sweep was written, any run
    prev,           \* history: what the previous call returned
    sdfg,           \* cutouts(): list(self._sdfg.all_nodes_recursive())
    cpos,           \* cutouts(): index of the next (node, state) pair
    cut             \* cutouts(): the nodes yielded so far

vars == <<program, fs, run, group_by, measurements, pc, error, ki,
          tuning_report, returned, cutout, arguments, groups, arrays, sgroups,
          configurations, ci, modified_arrays, results, best_choice,
          best_runtime, yielded, calls, runtimes, nmeasure, found, completed,
          prev, sdfg, cpos, cut>>

\* The state of the cutouts() generator.
cutouts_state == <<sdfg, cpos, cut>>

locals == <<cutout, arguments, groups, arrays, sgroups, configurations, ci,
            modified_arrays, results, best_choice, best_runtime>>

NoFile == [exists |-> FALSE, text |-> <<>>]
NotReturned == [ok |-> FALSE, value |-> <<>>]
NoChoice == [some |-> FALSE, val |-> {}]

label == program[ki].label

\* os.path.exists(f'{node.label}.tuning')
CacheExistsNever(files, l) == FALSE

CacheExists(files, l) == files[l].exists

\* What the file system held for a label when the loop reached its kernel.
FileState(files, l) == IF files[l].exists THEN "file" ELSE "nofile"

cached == {k \in 1..Len(program) : found[k] = "file"}
missed == {k \in 1..Len(program) : found[k] = "nofile"}

\* The state at the start of a call of optimize.
Enter(p, g, m) ==
    /\ program = p
    /\ group_by = g
    /\ measurements = m
    /\ pc = "loop"
    /\ error = ""
    /\ ki = 1
    /\ tuning_report = <<>>
    /\ returned = NotReturned
    /\ cutout = <<>>
    /\ arguments = <<>>
    /\ groups = NoGroups
    /\ arrays = <<>>
    /\ sgroups = <<>>
    /\ configurations = <<>>
    /\ ci = 1
    /\ modified_arrays = {}
    /\ results = <<>>
    /\ best_choice = NoChoice
    /\ best_runtime = inf
    /\ yielded = <<>>
    /\ calls = <<>>
    /\ runtimes = <<>>
    /\ nmeasure = [k \in 1..Len(p) |-> 0]
    /\ found = [k \in 1..Len(p) |-> ""]

\* cutouts() has been run to its end by list(self.cutouts()); the graph it
\* walked is not kept.
CutoutsListed ==
    /\ sdfg = <<>>
    /\ cpos = 1
    /\ cut = <<>>

Init ==
    /\ \E p \in Programs, a \in CallArgs : Enter(p, a[1], a[2])
    /\ fs = [l \in Labels |-> NoFile]
    /\ run = 1
    /\ completed = {}
    /\ prev = NotReturned
    /\ CutoutsListed

\* One kernel at a time, from the larger set of kernels.
InitSweep ==
    /\ \E p \in SweepPrograms, a \in CallArgs : Enter(p, a[1], a[2])
    /\ fs = [l \in Labels |-> NoFile]
    /\ run = 1
    /\ completed = {}
    /\ prev = NotReturned
    /\ CutoutsListed

\* ---------------------------------------------------------------- optimize
\* arguments[dnode.data] = dreport.get_first_version(dnode.data) for every
\* data node of a non-transient array: the captured buffer, in the layout of
\* the cutout's original descriptor.
Buffer(desc) == [strides |-> desc.strides]

RECURSIVE FirstVersions(_, _, _)
FirstVersions(k, i, args) ==
    IF i > Len(k.dnodes) THEN args
    ELSE LET desc == DictGet(k.arrays, k.dnodes[i].data)
         IN IF desc.transient THEN FirstVersions(k, i + 1, args)
            ELSE FirstVersions(k, i + 1,
                               DictSet(args, k.dnodes[i].data, Buffer(desc)))

\* arguments[marray] = dt.make_array_from_descriptor(cutout.arrays[marray],
\* arguments[marray]) for every modified array.
RelayoutNone(args, store, marrays) == args

RECURSIVE Relayout(_, _, _)
Relayout(args, store, marrays) ==
    IF marrays = {} THEN args
    ELSE LET marray == CHOOSE m \in marrays : TRUE
         IN Relayout(DictSet(args, marray, Buffer(DictGet(store, marray))),
                     store, marrays \ {marray})

\* layout = '\n'.join(f'  {k}: {v.strides}' for the non-transient arrays): the
\* lines of the string, each the pair a line is formatted from.
LayoutNamesOnly(store) ==
    LET nt == NonTransient(store)
    IN [i \in 1..Len(nt) |-> <<nt[i][1], <<>>>>]

LayoutWithTransients(store) ==
    [i \in 1..Len(store) |-> <<store[i][1], store[i][2].strides>>]

Layout(store) ==
    LET nt == NonTransient(store)
    IN [i \in 1..Len(nt) |-> <<nt[i][1], nt[i][2].strides>>]

\* measure(cutout, arguments, repetitions=measurements)
RepetitionsDefault(m) == 30

Repetitions(m) == m

\* results[layout] = runtime, which runs only when measure returned.
RecordRuntimeSentinel(res, layout, raised, runtime) ==
    DictSet(res, layout, IF raised THEN inf ELSE runtime)

RecordRuntime(res, layout, raised, runtime) ==
    IF raised THEN res ELSE DictSet(res, layout, runtime)

\* The descriptor store after measure() compiled and ran the cutout it was
\* handed: untouched, or with its descriptors overwritten.
Clobbered(store) ==
    [i \in 1..Len(store) |->
        <<store[i][1],
          [store[i][2] EXCEPT !.strides = [d \in 1..Len(store[i][2].shape) |-> 0],
                              !.total_size = 0]>>]

\* if os.path.exists(...): tuning_report[node.label] = json.load(fp); continue
CacheHit ==
    /\ pc = "loop"
    /\ ki <= Len(program)
    /\ CacheExists(fs, label)
    /\ json_wellformed(fs[label].text)
    /\ tuning_report' = DictSet(tuning_report, label, json_load(fs[label].text))
    /\ found' = [found EXCEPT ![ki] = FileState(fs, label)]
    /\ ki' = ki + 1
    /\ UNCHANGED <<cutouts_state, program, fs, run, group_by, measurements, pc, error,
                   returned, locals, yielded, calls, runtimes, nmeasure,
                   completed, prev>>

\* The file exists and json.load raises.
CacheCorrupt ==
    /\ pc = "loop"
    /\ ki <= Len(program)
    /\ CacheExists(fs, label)
    /\ ~json_wellformed(fs[label].text)
    /\ found' = [found EXCEPT ![ki] = FileState(fs, label)]
    /\ pc' = "raised"
    /\ error' = "JSONDecodeError"
    /\ UNCHANGED <<cutouts_state, program, fs, run, group_by, measurements, ki, tuning_report,
                   returned, locals, yielded, calls, runtimes, nmeasure,
                   completed, prev>>

\* No cache file: the cutout, its arguments, its groups, the empty results.
StartKernel ==
    /\ pc = "loop"
    /\ ki <= Len(program)
    /\ ~CacheExists(fs, label)
    /\ found' = [found EXCEPT ![ki] = FileState(fs, label)]
    /\ cutout' = program[ki].arrays
    /\ arguments' = FirstVersions(program[ki], 1, <<>>)
    /\ groups' = setup_tuning_groups(program[ki], group_by)
    /\ results' = <<>>
    /\ best_choice' = NoChoice
    /\ best_runtime' = inf
    /\ yielded' = <<>>
    /\ calls' = <<>>
    /\ runtimes' = <<>>
    /\ pc' = "space"
    /\ UNCHANGED <<cutouts_state, program, fs, run, group_by, measurements, error, ki,
                   tuning_report, returned, arrays, sgroups, configurations,
                   ci, modified_arrays, nmeasure, completed, prev>>

\* The first next() of space(): the copy of the arrays, the groups and the
\* configurations, then the first configuration; or the ValueError.
SpaceBegin ==
    /\ pc = "space"
    /\ LET setup == SpaceSetup(cutout, groups)
       IN IF setup.raised
          THEN /\ pc' = "raised"
               /\ error' = "ValueError"
               /\ arrays' = cutout
               /\ UNCHANGED <<cutout, sgroups, configurations, ci,
                              modified_arrays, yielded>>
          ELSE LET applied == ApplyConfiguration(cutout, cutout, setup.groups,
                                                 setup.configurations[1])
               IN /\ arrays' = cutout
                  /\ sgroups' = setup.groups
                  /\ configurations' = setup.configurations
                  /\ cutout' = applied.store
                  /\ modified_arrays' = applied.modified_arrays
                  /\ yielded' = Append(yielded, setup.configurations[1])
                  /\ ci' = 2
                  /\ pc' = "body"
                  /\ UNCHANGED error
    /\ UNCHANGED <<cutouts_state, program, fs, run, group_by, measurements, ki, tuning_report,
                   returned, arguments, groups, results, best_choice,
                   best_runtime, calls, runtimes, nmeasure, found, completed,
                   prev>>

\* A later next() of space(): the next configuration, reset and applied.
SpaceNext ==
    /\ pc = "next"
    /\ ci <= Len(configurations)
    /\ LET applied == ApplyConfiguration(cutout, arrays, sgroups,
                                         configurations[ci])
       IN /\ cutout' = applied.store
          /\ modified_arrays' = applied.modified_arrays
    /\ yielded' = Append(yielded, configurations[ci])
    /\ ci' = ci + 1
    /\ pc' = "body"
    /\ UNCHANGED <<cutouts_state, program, fs, run, group_by, measurements, error, ki,
                   tuning_report, returned, arguments, groups, arrays, sgroups,
                   configurations, results, best_choice, best_runtime, calls, runtimes,
                   nmeasure, found, completed, prev>>

\* space() is exhausted: the loop over the configurations ends.
SpaceStop ==
    /\ pc = "next"
    /\ ci > Len(configurations)
    /\ pc' = "write"
    /\ UNCHANGED <<cutouts_state, program, fs, run, group_by, measurements, error, ki,
                   tuning_report, returned, locals, yielded, calls, runtimes, nmeasure,
                   found, completed, prev>>

\* The measure() call of the loop body, as the call sees its arguments.
Call(args) ==
    [config |-> yielded[Len(yielded)], repetitions |-> Repetitions(measurements),
     store |-> cutout, arguments |-> args, layout |-> Layout(cutout)]

\* The loop body when measure() returns a runtime.
MeasureOk ==
    /\ pc = "body"
    /\ LET args == Relayout(arguments, cutout, modified_arrays)
           layout == Layout(cutout)
       IN \E runtime \in Costs, dirty \in BOOLEAN :
             /\ arguments' = args
             /\ calls' = Append(calls, Call(args))
             /\ runtimes' = Append(runtimes, runtime)
             /\ nmeasure' = [nmeasure EXCEPT ![ki] = @ + 1]
             /\ cutout' = IF dirty THEN Clobbered(cutout) ELSE cutout
             /\ results' = RecordRuntime(results, layout, FALSE, runtime)
             /\ IF runtime < best_runtime
                THEN /\ best_choice' = [some |-> TRUE, val |-> modified_arrays]
                     /\ best_runtime' = runtime
                ELSE UNCHANGED <<best_choice, best_runtime>>
    /\ pc' = "next"
    /\ UNCHANGED <<cutouts_state, program, fs, run, group_by, measurements, error, ki,
                   tuning_report, returned, groups, arrays, sgroups,
                   configurations, ci, modified_arrays, yielded, found, completed, prev>>

\* The loop body when the execution collaborator fails inside measure().
MeasureFail ==
    /\ pc = "body"
    /\ LET args == Relayout(arguments, cutout, modified_arrays)
           layout == Layout(cutout)
       IN /\ arguments' = args
          /\ calls' = Append(calls, Call(args))
          /\ nmeasure' = [nmeasure EXCEPT ![ki] = @ + 1]
          /\ results' = RecordRuntime(results, layout, TRUE, 0)
          /\ UNCHANGED runtimes
    /\ pc' = "raised"
    /\ error' = "ExecutionError"
    /\ UNCHANGED <<cutouts_state, program, fs, run, group_by, measurements, ki, tuning_report,
                   returned, cutout, groups, arrays, sgroups, configurations,
                   ci, modified_arrays, best_choice, best_runtime, yielded,
                   found, completed, prev>>

\* tuning_report[node.label] = results; open(f'{node.label}.tuning', 'w')
WriteOpen ==
    /\ pc = "write"
    /\ tuning_report' = DictSet(tuning_report, label, results)
    /\ fs' = [fs EXCEPT ![label] = [exists |-> TRUE, text |-> <<>>]]
    /\ pc' = "dump"
    /\ UNCHANGED <<cutouts_state, program, run, group_by, measurements, error, ki, returned,
                   locals, yielded, calls, runtimes, nmeasure, found, completed,
                   prev>>

\* json.dump(results, fp) and the end of the loop body.
WriteDump ==
    /\ pc = "dump"
    /\ fs' = [fs EXCEPT ![label].text = json_dump(results)]
    /\ completed' = completed \cup {ki}
    /\ ki' = ki + 1
    /\ pc' = "loop"
    /\ UNCHANGED <<cutouts_state, program, run, group_by, measurements, error, tuning_report,
                   returned, locals, yielded, calls, runtimes, nmeasure, found,
                   prev>>

\* return tuning_report
Return ==
    /\ pc = "loop"
    /\ ki > Len(program)
    /\ returned' = [ok |-> TRUE, value |-> tuning_report]
    /\ pc' = "done"
    /\ UNCHANGED <<cutouts_state, program, fs, run, group_by, measurements, error, ki,
                   tuning_report, locals, yielded, calls, runtimes, nmeasure, found,
                   completed, prev>>

\* The sweep is interrupted between two configurations.
InterruptSweep ==
    /\ pc = "next"
    /\ pc' = "raised"
    /\ error' = "KeyboardInterrupt"
    /\ UNCHANGED <<cutouts_state, program, fs, run, group_by, measurements, ki, tuning_report,
                   returned, locals, yielded, calls, runtimes, nmeasure, found,
                   completed, prev>>

\* The process is interrupted while json.dump writes: a prefix of the text
\* stays in the file (nothing of it, or all but its end).
InterruptDump ==
    /\ pc = "dump"
    /\ \E n \in {0, Len(json_dump(results)) - 1} :
          fs' = [fs EXCEPT ![label].text = SubSeq(json_dump(results), 1, n)]
    /\ pc' = "raised"
    /\ error' = "KeyboardInterrupt"
    /\ UNCHANGED <<cutouts_state, program, run, group_by, measurements, ki, tuning_report,
                   returned, locals, yielded, calls, runtimes, nmeasure, found,
                   completed, prev>>

\* optimize is called again on the same program, with the files as they are.
Restart ==
    /\ pc \in {"done", "raised"}
    /\ run < MaxRuns
    /\ run' = run + 1
    /\ prev' = returned
    /\ \E a \in CallArgs :
          /\ group_by' = a[1]
          /\ measurements' = a[2]
    /\ pc' = "loop"
    /\ error' = ""
    /\ ki' = 1
    /\ tuning_report' = <<>>
    /\ returned' = NotReturned
    /\ cutout' = <<>>
    /\ arguments' = <<>>
    /\ groups' = NoGroups
    /\ arrays' = <<>>
    /\ sgroups' = <<>>
    /\ configurations' = <<>>
    /\ ci' = 1
    /\ modified_arrays' = {}
    /\ results' = <<>>
    /\ best_choice' = NoChoice
    /\ best_runtime' = inf
    /\ yielded' = <<>>
    /\ calls' = <<>>
    /\ runtimes' = <<>>
    /\ nmeasure' = [k \in 1..Len(program) |-> 0]
    /\ found' = [k \in 1..Len(program) |-> ""]
    /\ UNCHANGED <<cutouts_state, program, fs, completed>>

Next ==
    \/ CacheHit
    \/ CacheCorrupt
    \/ StartKernel
    \/ SpaceBegin
    \/ SpaceNext
    \/ SpaceStop
    \/ MeasureOk
    \/ MeasureFail
    \/ WriteOpen
    \/ WriteDump
    \/ Return
    \/ InterruptSweep
    \/ InterruptDump
    \/ Restart

Spec == Init /\ [][Next]_vars

SpecSweep == InitSweep /\ [][Next]_vars

\* ===================================================================== claims
\* The mapping a report denotes: label -> (layout -> runtime).
ReportMap(report) ==
    [l \in DictKeys(report) |-> AsMap(DictGet(report, l))]

\* The rank of a group's members as the original descriptors give it.
GroupRank(store, group) ==
    IF group = {} THEN 0
    ELSE Len(DictGet(store, CHOOSE m \in group : TRUE).shape)

RECURSIVE Factorial(_)
Factorial(n) == IF n <= 0 THEN 1 ELSE n * Factorial(n - 1)

\* Every permutation of range(n), as a set.
AllPermutations(n) ==
    {p \in [1..n -> {i - 1 : i \in 1..n}] :
        \A i, j \in 1..n : p[i] = p[j] => i = j}

\* Every joint assignment of one permutation per group.
JointAssignments(dims) ==
    {c \in [1..Len(dims) -> UNION {AllPermutations(dims[g]) : g \in 1..Len(dims)}] :
        \A g \in 1..Len(dims) : c[g] \in AllPermutations(dims[g])}

\* The descriptor store a configuration stands for: the original descriptors,
\* with the strides and total_size of each group's members those of the
\* group's permutation.
ExpectedStore(original, grps, config) ==
    [i \in 1..Len(original) |->
        LET name == original[i][1]
            desc == original[i][2]
        IN IF \E g \in 1..Len(grps) : name \in grps[g]
           THEN LET g == CHOOSE h \in 1..Len(grps) : name \in grps[h]
                    st == strides_from_layout(desc, config[g])
                IN <<name, [desc EXCEPT !.strides = st[1], !.total_size = st[2]]>>
           ELSE <<name, desc>>]

\* The layout signature of a configuration, from the original descriptors.
ExpectedLayout(original, grps, config) ==
    LET store == ExpectedStore(original, grps, config)
        names == {store[i][1] : i \in {j \in 1..Len(store) : ~store[j][2].transient}}
    IN [i \in 1..Cardinality(names) |->
           LET j == CHOOSE j \in 1..Len(store) :
                       /\ ~store[j][2].transient
                       /\ Cardinality({h \in 1..j : ~store[h][2].transient}) = i
           IN <<store[j][1], store[j][2].strides>>]

InSweep == pc \in {"body", "next", "write", "dump"}

\* C1: a kernel whose '<label>.tuning' file exists when the loop reaches it is
\* never measured, and once the loop has passed it the report holds for its
\* label exactly the mapping stored in the file; a call of optimize that
\* returns after a call that returned gives the same report with no
\* measurement at all.
C1_CacheHitIdempotent ==
    /\ \A k \in cached : nmeasure[k] = 0
    /\ \A k \in cached :
          k < ki =>
             /\ DictHas(tuning_report, program[k].label)
             /\ AsMap(DictGet(tuning_report, program[k].label))
                   = AsMap(json_load(fs[program[k].label].text))
    /\ (pc = "done" /\ prev.ok) =>
          /\ ReportMap(returned.value) = ReportMap(prev.value)
          /\ \A k \in 1..Len(program) : nmeasure[k] = 0

C1_Witness ==
    /\ pc = "done"
    /\ prev.ok
    /\ Len(program) = 2
    /\ cached = {1, 2}
    /\ Len(returned.value) > 0
    /\ Len(returned.value[1][2]) = 2

\* C2: when the groups have members of equal rank, the list of
\* configurations has prod_g(rank_g!) elements, holds every joint assignment
\* of one permutation per group exactly once, and space() applies each of
\* them once, in turn.
C2_SpaceIsProductOfPermutations ==
    InSweep =>
       LET dims == [g \in 1..Len(sgroups) |-> GroupRank(arrays, sgroups[g])]
       IN /\ Len(configurations)
                = SeqProduct([g \in 1..Len(dims) |-> Factorial(dims[g])])
          /\ Range(configurations) = JointAssignments(dims)
          /\ \A i, j \in 1..Len(configurations) :
                configurations[i] = configurations[j] => i = j
          /\ yielded = SubSeq(configurations, 1, ci - 1)
          /\ (pc \in {"write", "dump"} => yielded = configurations)

C2_Witness ==
    /\ pc = "write"
    /\ group_by = Separate
    /\ Len(sgroups) = 2
    /\ \A g \in 1..Len(sgroups) : GroupRank(arrays, sgroups[g]) = 2
    /\ Len(yielded) = 4

\* C3: measure() is called once for each configuration space() yielded, in
\* the order of the yields, with the requested repetition count, and for
\* nothing else; when the sweep of a kernel ends, the number of calls is the
\* number of configurations.
C3_MeasureOncePerConfiguration ==
    /\ Len(calls) = (IF pc = "body" THEN Len(yielded) - 1 ELSE Len(yielded))
    /\ \A i \in 1..Len(calls) :
          /\ calls[i].config = yielded[i]
          /\ calls[i].repetitions = measurements
    /\ InSweep => nmeasure[ki] = Len(calls)
    /\ pc \in {"write", "dump"} => Len(calls) = Len(configurations)
    /\ \A k \in missed :
          k < ki =>
             nmeasure[k] = Len(SpaceSetup(program[k].arrays,
                                          setup_tuning_groups(program[k], group_by))
                                  .configurations)

C3_Witness ==
    /\ pc = "write"
    /\ ki = 2
    /\ 1 \in missed
    /\ measurements = 1
    /\ Len(calls) = 2

\* C4: at every yield of space() the descriptor store is the original store
\* except for the strides and total_size of the groups' members, which are
\* those of the current configuration.
C4_ConfigurationsAreIndependent ==
    pc = "body" =>
       /\ arrays = program[ki].arrays
       /\ cutout = ExpectedStore(program[ki].arrays, sgroups, yielded[Len(yielded)])
       /\ modified_arrays = UNION {sgroups[g] : g \in 1..Len(sgroups)}

C4_Witness ==
    /\ pc = "body"
    /\ Len(yielded) >= 2
    /\ \E i \in 1..Len(cutout) : cutout[i][2].transient
    /\ cutout # arrays

\* Some group holds arrays of different ranks.
MixedRanks(store, gs) ==
    /\ gs.some
    /\ \E g \in 1..Len(gs.val) :
          \E a, b \in gs.val[g] :
             Len(DictGet(store, a).shape) # Len(DictGet(store, b).shape)

\* C5: a group of mixed ranks makes the sweep raise before anything is
\* yielded: no configuration is yielded or measured with such a group, and at
\* the ValueError the kernel has no measurement and no cache file.
C5_MixedRanksRaise ==
    /\ InSweep => ~MixedRanks(program[ki].arrays, groups)
    /\ error = "ValueError" =>
          /\ pc = "raised"
          /\ MixedRanks(program[ki].arrays, groups)
          /\ yielded = <<>>
          /\ calls = <<>>
          /\ nmeasure[ki] = 0
          /\ ~fs[label].exists

C5_Witness ==
    /\ error = "ValueError"
    /\ group_by = Inputs_Outputs
    /\ ki = 2
    /\ 1 \in missed

\* The configurations the calls measured, in order.
MeasuredConfigs == [i \in 1..Len(calls) |-> calls[i].config]

\* C6: a step creates a cache file only at the end of the sweep of the
\* file's kernel, when every configuration of that sweep has been measured; a
\* file that has been written is never changed again; and no kernel whose
\* sweep was completed and written, in this call or an earlier one, is ever
\* measured again.
C6_Step ==
    /\ \A l \in Labels :
          (~fs[l].exists /\ fs'[l].exists) =>
             /\ pc = "write"
             /\ l = label
             /\ MeasuredConfigs = configurations
    /\ \A l \in Labels :
          (fs[l].exists /\ json_wellformed(fs[l].text)) => fs'[l] = fs[l]
    /\ \A k \in 1..Len(program) :
          (run' = run /\ nmeasure'[k] > nmeasure[k]) => k \notin completed

C6_ResumableCache == [][C6_Step]_vars

C6_Witness ==
    /\ run = 2
    /\ ~prev.ok
    /\ 1 \in completed
    /\ 1 \in cached
    /\ ki = 2
    /\ pc = "dump"
    /\ nmeasure[2] = 2

\* C7: a cache file that exists and is malformed is treated as a miss, so
\* optimize never fails on reading it.
C7_CorruptCacheIsMiss == ~(pc = "raised" /\ error = "JSONDecodeError")

\* C8: when measure() fails, the failure leaves optimize; the failing step
\* records no cost, writes no file and puts nothing for the kernel in the
\* report, nothing is returned, and the call measures nothing more.
C8_Step ==
    /\ (error = "" /\ error' = "ExecutionError") =>
          /\ pc = "body"
          /\ pc' = "raised"
          /\ results' = results
          /\ fs' = fs
          /\ ~fs'[label].exists
          /\ ~DictHas(tuning_report', label)
          /\ returned' = NotReturned
    /\ (error = "ExecutionError" /\ run' = run) =>
          /\ nmeasure' = nmeasure
          /\ results' = results
          /\ fs' = fs
          /\ returned' = NotReturned

C8_FailureAbortsSweep == [][C8_Step]_vars

C8_Witness ==
    /\ error = "ExecutionError"
    /\ pc = "raised"
    /\ Len(calls) = 2
    /\ Len(results) = 1
    /\ ~fs[label].exists

\* C9: in the first call, when no cache file exists yet, every kernel is
\* measured itself and the returned report has one entry per kernel.
C9_DistinctCacheKeys ==
    (run = 1 /\ pc = "done") =>
       /\ \A k \in 1..Len(program) : nmeasure[k] > 0
       /\ Len(returned.value) = Len(program)

\* C10 as stated: the mapping of a freshly tuned kernel has as many entries
\* as configurations were measured.
C10_OneEntryPerConfiguration ==
    pc \in {"write", "dump"} => Len(results) = Len(configurations)

\* The layouts of the configurations measured so far.
MeasuredLayouts ==
    {ExpectedLayout(program[ki].arrays, sgroups, calls[i].config) :
        i \in 1..Len(calls)}

\* C10 amended: the mapping has one entry per distinct layout signature of
\* the measured configurations, so at most as many entries as configurations,
\* and exactly as many when their signatures differ pairwise (2 entries for a
\* single array of shape [4,8]); the report and the file hold that mapping.
C10_OneEntryPerSignature ==
    /\ pc \in {"next", "write", "dump"} =>
          /\ DictKeys(results) = MeasuredLayouts
          /\ Len(results) = Cardinality(MeasuredLayouts)
          /\ Len(results) <= Len(calls)
    /\ pc \in {"write", "dump"} =>
          /\ MeasuredConfigs = configurations
          /\ (program[ki] = KernelA) =>
                DictKeys(results) = { << <<"A", <<8, 1>>>> >>, << <<"A", <<1, 4>>>> >> }
    /\ \A k \in missed :
          k < ki =>
             /\ json_wellformed(fs[program[k].label].text)
             /\ AsMap(DictGet(tuning_report, program[k].label))
                   = AsMap(json_load(fs[program[k].label].text))
             /\ (pc = "loop" /\ k = ki - 1) =>
                   AsMap(results) = AsMap(DictGet(tuning_report, program[k].label))

C10_Witness ==
    /\ pc = "dump"
    /\ Len(configurations) = 2
    /\ Len(results) = 1

\* The least of a non-empty sequence of runtimes.
MinRuntime(rs) == CHOOSE r \in Range(rs) : \A q \in Range(rs) : r <= q

\* The index of the earliest-enumerated configuration with the least runtime.
EarliestMin(rs) ==
    CHOOSE i \in 1..Len(rs) :
        /\ rs[i] = MinRuntime(rs)
        /\ \A j \in 1..(i - 1) : rs[j] # MinRuntime(rs)

\* The value space() yielded for the i-th configuration of this sweep.
YieldedValue(i) ==
    ApplyConfiguration(arrays, arrays, sgroups, yielded[i]).modified_arrays

\* C11: after each measurement of a sweep best_runtime is the least runtime
\* measured so far and best_choice is the value yielded for the earliest
\* configuration with that runtime; after the sweep best_choice identifies
\* the least-runtime configuration, that is every configuration for which
\* that value was yielded has the least runtime.
C11_BestIdentifiesMinimum ==
    (pc \in {"next", "write", "dump"} /\ Len(runtimes) > 0) =>
       /\ Len(runtimes) = Len(yielded)
       /\ best_runtime = MinRuntime(runtimes)
       /\ best_choice.some
       /\ best_choice.val = YieldedValue(EarliestMin(runtimes))
       /\ pc \in {"write", "dump"} =>
             \A i \in 1..Len(yielded) :
                YieldedValue(i) = best_choice.val =>
                   runtimes[i] = best_runtime

\* The kernel with its data nodes traversed in every other order.
Reorderings(kernel) ==
    {[kernel EXCEPT !.dnodes =
          [i \in 1..Len(kernel.dnodes) |-> kernel.dnodes[p[i] + 1]]] :
        p \in AllPermutations(Len(kernel.dnodes))}

\* The groups as a set of sets of array names.
GroupSet(gs) == IF gs.some THEN Range(gs.val) ELSE {}

\* C12: the set of groups setup_tuning_groups returned for the kernel being
\* tuned is the one it returns for the same kernel and policy whatever the
\* order its data nodes are traversed in, also when an array has a data node
\* of zero in-degree and one that is written.
C12_GroupingIgnoresTraversalOrder ==
    pc \in {"space", "body", "next", "write", "dump"} =>
       \A k \in Reorderings(program[ki]) :
          GroupSet(setup_tuning_groups(k, group_by)) = GroupSet(groups)

\* The non-transient arrays a data node of the kernel refers to.
Referenced(kernel) ==
    {kernel.dnodes[i].data : i \in {j \in 1..Len(kernel.dnodes) :
        ~DictGet(kernel.arrays, kernel.dnodes[j].data).transient}}

\* The referenced arrays that some data node of the kernel writes.
Written(kernel) ==
    {a \in Referenced(kernel) :
        \E i \in 1..Len(kernel.dnodes) :
            kernel.dnodes[i].data = a /\ kernel.dnodes[i].in_degree # 0}

\* The referenced arrays with no incoming data dependency in the kernel.
PureInputs(kernel) == Referenced(kernel) \ Written(kernel)

\* C13: under Inputs_Outputs setup_tuning_groups returns at most two groups,
\* the pure inputs and the written arrays (an empty one left out); the
\* kernel with the inputs X, Y and the output Z gets {X, Y} and {Z}.
C13_InputsOutputsGroups ==
    (pc \in {"space", "body", "next", "write", "dump"}
        /\ group_by = Inputs_Outputs) =>
       /\ groups.some
       /\ Len(groups.val) <= 2
       /\ GroupSet(groups)
             = {PureInputs(program[ki]), Written(program[ki])} \ {{}}
       /\ program[ki] = KernelB => groups.val = << {"X", "Y"}, {"Z"} >>

\* The strides of the non-transient arrays of a descriptor store.
NonTransientStrides(store) ==
    {<<store[i][1], store[i][2].strides>> :
        i \in {j \in 1..Len(store) : ~store[j][2].transient}}

\* The store with the strides of every transient array reversed.
TransientsReversed(store) ==
    [i \in 1..Len(store) |->
        IF store[i][2].transient
        THEN <<store[i][1],
               [store[i][2] EXCEPT !.strides =
                   [d \in 1..Len(@) |-> @[Len(@) + 1 - d]]]>>
        ELSE store[i]]

\* C14: among the configurations measured in a sweep, two get the same
\* layout signature exactly when the store held the same strides for every
\* non-transient array, and the signature is the one of the same store with
\* other strides for its transient arrays.
C14_SignatureFromNonTransientStrides ==
    /\ \A i, j \in 1..Len(calls) :
          (calls[i].layout = calls[j].layout)
             <=> (NonTransientStrides(calls[i].store)
                     = NonTransientStrides(calls[j].store))
    /\ \A i \in 1..Len(calls) :
          /\ calls[i].layout = Layout(calls[i].store)
          /\ calls[i].layout = Layout(TransientsReversed(calls[i].store))
    /\ pc \in {"next", "write", "dump"} =>
          DictKeys(results) = {calls[i].layout : i \in 1..Len(calls)}

\* Two different permutations of an array with two extents of 1 were measured
\* under one signature, with a transient array in the store.
C14_Witness ==
    /\ Len(calls) >= 2
    /\ calls[1].config # calls[2].config
    /\ calls[1].layout = calls[2].layout
    /\ \E i \in 1..Len(cutout) :
          /\ cutout[i][2].transient
          /\ TransientsReversed(cutout)[i] # cutout[i]

\* The states in which calls holds measure() calls of the kernel at ki.
CallsOfKernel ==
    \/ InSweep
    \/ pc = "raised" /\ error = "ExecutionError"

\* C15: at every measure() call of a sweep the configuration is the one
\* space() yielded last, the descriptor store holds exactly that
\* configuration's strides, the argument buffer of every array of the
\* yielded set has the strides of its descriptor in that store, and the
\* layout signature is the one of that store; space() is not advanced
\* between a yield and the measure() call of that configuration.
C15_MeasuredUnderYieldedConfiguration ==
    CallsOfKernel =>
       /\ \A i \in 1..Len(calls) :
             /\ i <= Len(yielded)
             /\ calls[i].config = yielded[i]
             /\ calls[i].store
                   = ExpectedStore(program[ki].arrays, sgroups, yielded[i])
             /\ \A m \in YieldedValue(i) :
                   /\ DictHas(calls[i].arguments, m)
                   /\ DictGet(calls[i].arguments, m)
                         = Buffer(DictGet(calls[i].store, m))
             /\ calls[i].layout
                   = ExpectedLayout(program[ki].arrays, sgroups, yielded[i])
       /\ Len(yielded) = Len(calls) + (IF pc = "body" THEN 1 ELSE 0)
       /\ \A i, j \in 1..Len(yielded) : yielded[i] = yielded[j] => i = j

\* A second configuration was measured with buffers other than the first
\* one's, after a measure() call that overwrote the store.
C15_Witness ==
    /\ pc = "next"
    /\ Len(calls) >= 2
    /\ calls[2].arguments # calls[1].arguments
    /\ cutout # calls[2].store

\* The names of the transient arrays of a descriptor store.
Transients(store) ==
    {store[i][1] : i \in {j \in 1..Len(store) : store[j][2].transient}}

\* The states in which groups holds the groups of the kernel at ki.
GroupsOfKernel ==
    \/ InSweep
    \/ pc = "space"
    \/ pc = "raised" /\ error \in {"ValueError", "ExecutionError"}

\* C16: the groups of a policy other than Separate are non-empty, pairwise
\* disjoint, without transient arrays, and cover exactly the non-transient
\* arrays a data node refers to; under Separate setup_tuning_groups returns
\* None and space() makes one singleton per non-transient array and none for
\* a transient one; no configuration changes a transient array's descriptor
\* or yields a transient array.
C16_GroupsPartitionNonTransients ==
    /\ (GroupsOfKernel /\ group_by # Separate) =>
          /\ groups.some
          /\ \A g \in 1..Len(groups.val) :
                /\ groups.val[g] # {}
                /\ groups.val[g] \cap Transients(program[ki].arrays) = {}
                /\ \A h \in 1..Len(groups.val) :
                      g # h => groups.val[g] \cap groups.val[h] = {}
          /\ UNION Range(groups.val) = Referenced(program[ki])
    /\ (GroupsOfKernel /\ group_by = Separate) => ~groups.some
    /\ (InSweep /\ group_by = Separate) =>
          /\ Range(sgroups)
                = {{a} : a \in DictKeys(program[ki].arrays)
                                  \ Transients(program[ki].arrays)}
          /\ Len(sgroups) = Cardinality(Range(sgroups))
    /\ pc = "body" =>
          /\ modified_arrays \cap Transients(program[ki].arrays) = {}
          /\ \A i \in 1..Len(cutout) :
                cutout[i][2].transient => cutout[i] = program[ki].arrays[i]

\* The second configuration of a kernel with a transient array and two
\* groups has been yielded.
C16_Witness ==
    /\ pc = "body"
    /\ group_by # Separate
    /\ Len(groups.val) = 2
    /\ Transients(cutout) # {}
    /\ Len(yielded) >= 2

\* The rank of an array of the kernel.
Rank(kernel, a) == Len(DictGet(kernel.arrays, a).shape)

\* C17: under Dimension the groups are the classes of the referenced
\* non-transient arrays by rank, one group per distinct rank; under Dimension
\* and Inputs_Outputs_Dimension the members of a group have one rank, and
\* space() does not raise the ValueError of a group of mixed ranks.
C17_GroupsOfEqualRank ==
    /\ (GroupsOfKernel /\ group_by = Dimension) =>
          /\ Range(groups.val)
                = {{b \in Referenced(program[ki]) :
                        Rank(program[ki], b) = Rank(program[ki], a)} :
                     a \in Referenced(program[ki])}
          /\ Len(groups.val)
                = Cardinality({Rank(program[ki], a) :
                                  a \in Referenced(program[ki])})
    /\ (GroupsOfKernel /\ group_by \in {Dimension, Inputs_Outputs_Dimension}) =>
          /\ \A g \in 1..Len(groups.val) :
                \A a, b \in groups.val[g] :
                   Rank(program[ki], a) = Rank(program[ki], b)
          /\ ~SpaceSetup(program[ki].arrays, groups).raised
          /\ ~(pc = "raised" /\ error = "ValueError")

\* Under Dimension a kernel with arrays of two ranks, two of them of one
\* rank, got its first configuration from space().
C17_Witness ==
    /\ pc = "body"
    /\ group_by = Dimension
    /\ Len(groups.val) = 2
    /\ \E g \in 1..Len(groups.val) : Cardinality(groups.val[g]) = 2

\* ------------------------------------------------- space() called directly
\* The longest explicit list of groups space() is called with.
MaxGroups == 2

\* The names of the non-transient arrays of a descriptor store.
NonTransientNames(store) == DictKeys(store) \ Transients(store)

\* groups=None, or a list of up to MaxGroups disjoint non-empty sets of
\* non-transient arrays of the cutout.
ExplicitGroups(kernel) ==
    {NoGroups} \cup
    {SomeGroups(l) :
        l \in {s \in UNION {[1..n -> SUBSET NonTransientNames(kernel.arrays) \ {{}}] :
                               n \in 0..MaxGroups} :
                  \A g, h \in 1..Len(s) : g # h => s[g] \cap s[h] = {}}}

\* space(cutout_sdfg, name, groups) is called on a cutout, outside optimize.
InitSpace ==
    /\ \E k \in SweepKernels :
          /\ program = <<k>>
          /\ cutout = k.arrays
          /\ groups \in ExplicitGroups(k)
    /\ pc = "space"
    /\ group_by = Separate
    /\ measurements = 1
    /\ error = ""
    /\ ki = 1
    /\ run = 1
    /\ tuning_report = <<>>
    /\ returned = NotReturned
    /\ arguments = <<>>
    /\ arrays = <<>>
    /\ sgroups = <<>>
    /\ configurations = <<>>
    /\ ci = 1
    /\ modified_arrays = {}
    /\ results = <<>>
    /\ best_choice = NoChoice
    /\ best_runtime = inf
    /\ yielded = <<>>
    /\ calls = <<>>
    /\ runtimes = <<>>
    /\ nmeasure = <<0>>
    /\ found = <<"">>
    /\ fs = [l \in Labels |-> NoFile]
    /\ completed = {}
    /\ prev = NotReturned
    /\ CutoutsListed

\* The caller of space() takes the yielded set and asks for the next one.
SpaceConsume ==
    /\ pc = "body"
    /\ pc' = "next"
    /\ UNCHANGED <<cutouts_state, program, fs, run, group_by, measurements,
                   error, ki, tuning_report, returned, locals, yielded, calls,
                   runtimes, nmeasure, found, completed, prev>>

NextSpace ==
    \/ SpaceBegin
    \/ SpaceNext
    \/ SpaceStop
    \/ SpaceConsume

SpecSpace == InitSpace /\ [][NextSpace]_vars

\* The non-transient arrays of the cutout that no given group holds.
NonMembers == NonTransientNames(program[ki].arrays) \ UNION Range(groups.val)

\* C18: when space() got an explicit list of groups, each configuration it
\* yields has one permutation per given group and one per non-transient array
\* outside the groups, and the yielded set holds those arrays too.
C18_NonMembersAreSingletons ==
    (pc = "body" /\ groups.some) =>
       /\ NonMembers \subseteq modified_arrays
       /\ Len(yielded[Len(yielded)]) = Len(groups.val) + Cardinality(NonMembers)

\* ----------------------------------------------------------------- cutouts
\* The most (node, parent) pairs all_nodes_recursive() returns.
MaxNodes == 5

\* A state of an SDFG; nsdfg is the nested-SDFG node its SDFG belongs to
\* (parent_nsdfg_node), 0 for the top-level SDFG.
StateItem(nsdfg) ==
    [kind |-> "state", state |-> 0, scope |-> 0, nsdfg |-> nsdfg]

\* A node of a state; scope is the entry node of the scope it lies directly
\* in (state.entry_node(node)), 0 for none.
NodeItem(kind, state, scope) ==
    [kind |-> kind, state |-> state, scope |-> scope, nsdfg |-> 0]

NodeKinds == {"map_entry", "library", "tasklet", "nested_sdfg"}

\* What all_nodes_recursive() can return next: a state of a nested SDFG, or a
\* node of a state already returned, free or in the scope of a map entry of
\* that state.
NextItems(sd) ==
    {StateItem(n) : n \in {i \in 1..Len(sd) : sd[i].kind = "nested_sdfg"}}
    \cup {NodeItem(k, s, 0) :
             k \in NodeKinds, s \in {i \in 1..Len(sd) : sd[i].kind = "state"}}
    \cup UNION {{NodeItem(k, sd[m].state, m) : k \in NodeKinds} :
                   m \in {i \in 1..Len(sd) : sd[i].kind = "map_entry"}}

\* The lists all_nodes_recursive() returns for the SDFGs of up to n pairs:
\* the first pair is a state of the top-level SDFG.
RECURSIVE SDFGs(_)
SDFGs(n) ==
    IF n <= 1 THEN {<<StateItem(0)>>}
    ELSE LET smaller == SDFGs(n - 1)
         IN smaller \cup UNION {{Append(sd, item) : item \in NextItems(sd)} :
                                   sd \in {s \in smaller : Len(s) = n - 1}}

\* xfh.get_parent_map(state, node): the entry node of the scope of the node,
\* or of the nested-SDFG node its SDFG belongs to, and so on outwards; 0 for
\* None.
RECURSIVE get_parent_map(_, _)
get_parent_map(sd, i) ==
    IF sd[i].scope # 0 THEN sd[i].scope
    ELSE LET nsdfg == sd[sd[i].state].nsdfg
         IN IF nsdfg = 0 THEN 0 ELSE get_parent_map(sd, nsdfg)

\* The test of one pair of the loop of cutouts(): whether it is yielded.
cutouts_yields_any_depth(sd, i) ==
    /\ sd[i].kind # "state"
    /\ sd[i].kind \in {"map_entry", "library", "tasklet"}

cutouts_yields(sd, i) ==
    /\ sd[i].kind # "state"
    /\ get_parent_map(sd, i) = 0
    /\ sd[i].kind \in {"map_entry", "library", "tasklet"}

\* optimize() is at list(self.cutouts()): the generator starts on the list
\* all_nodes_recursive() returned.
InitCutouts ==
    /\ Enter(<<>>, Inputs_Outputs, 30)
    /\ fs = [l \in Labels |-> NoFile]
    /\ run = 1
    /\ completed = {}
    /\ prev = NotReturned
    /\ sdfg \in SDFGs(MaxNodes)
    /\ cpos = 1
    /\ cut = <<>>

\* One pair that is skipped: a state, a node inside a map, or a node of
\* another kind.
CutoutsContinue ==
    /\ cpos <= Len(sdfg)
    /\ ~cutouts_yields(sdfg, cpos)
    /\ cpos' = cpos + 1
    /\ UNCHANGED <<sdfg, cut, program, fs, run, group_by, measurements, pc,
                   error, ki, tuning_report, returned, locals, yielded, calls,
                   runtimes, nmeasure, found, completed, prev>>

\* yield state, node
CutoutsYield ==
    /\ cpos <= Len(sdfg)
    /\ cutouts_yields(sdfg, cpos)
    /\ cut' = Append(cut, cpos)
    /\ cpos' = cpos + 1
    /\ UNCHANGED <<sdfg, program, fs, run, group_by, measurements, pc,
                   error, ki, tuning_report, returned, locals, yielded, calls,
                   runtimes, nmeasure, found, completed, prev>>

NextCutouts ==
    \/ CutoutsContinue
    \/ CutoutsYield

SpecCutouts == InitCutouts /\ [][NextCutouts]_vars

\* What directly contains a pair's node: the entry node of its scope, else
\* the nested-SDFG node of its SDFG, else nothing; a state is contained in
\* the nested-SDFG node of its SDFG.
Container(sd, i) ==
    IF sd[i].kind = "state" THEN sd[i].nsdfg
    ELSE IF sd[i].scope # 0 THEN sd[i].scope
    ELSE sd[sd[i].state].nsdfg

\* The tunable units a pair's node lies inside, at any depth.
Enclosing(sd, i) ==
    LET Inside[n \in 0..Len(sd)] ==
            IF n = 0 THEN {i}
            ELSE Inside[n - 1]
                 \cup ({Container(sd, j) : j \in Inside[n - 1]} \ {0})
    IN {a \in Inside[Len(sd)] \ {i} :
            sd[a].kind \in {"map_entry", "library", "tasklet"}}

Tunable(sd, i) == sd[i].kind \in {"map_entry", "library", "tasklet"}

\* C19: of the pairs cutouts() has gone through, the yielded ones are exactly
\* the map entries, library nodes and tasklets that lie inside no tunable
\* unit, each yielded once, and no yielded node lies inside another yielded
\* unit, at any depth.
C19_OutermostUnitsOnly ==
    /\ \A i \in 1..(cpos - 1) :
          (Tunable(sdfg, i) /\ Enclosing(sdfg, i) = {}) <=> (i \in Range(cut))
    /\ \A a, b \in 1..Len(cut) : cut[a] = cut[b] => a = b
    /\ \A i, j \in Range(cut) : j \notin Enclosing(sdfg, i)

\* cutouts() is exhausted on an SDFG with a tasklet in a nested SDFG inside a
\* map, which was not yielded, while the map entry was.
C19_Witness ==
    /\ cpos > Len(sdfg)
    /\ cut # <<>>
    /\ \E i \in 1..Len(sdfg) :
          /\ sdfg[i].kind = "tasklet"
          /\ sdfg[i].scope = 0
          /\ sdfg[sdfg[i].state].nsdfg # 0
          /\ get_parent_map(sdfg, i) \in Range(cut)

====
